---- MODULE Spec2Model ----
(***************************************************************************)
(* Model of hn_scraper.py: one HTTP GET of the Hacker News front page, a   *)
(* primary and a fallback regular expression over the decoded text, and a  *)
(* numbered listing on standard output, all inside one try/except.         *)
(*                                                                         *)
(* The fetched text is a sequence of lexical tokens.  Every token either   *)
(* is ">" alone, or starts with "<" and holds no other "<" or ">", or      *)
(* holds neither; so the character classes [^>], [^<] and . of the two     *)
(* patterns act on whole tokens exactly as they act on the characters.     *)
(***************************************************************************)
EXTENDS Integers, Sequences, FiniteSets, TLC

\* ------------------------------------------------------------- bounds
\* Number of markup fragments concatenated into one fetched page.
MaxSegs == 3

\* ------------------------------------------------------------- tokens
SPAN   == "<span "
CLS    == "class=\"titleline\""
GT     == ">"
AOPEN  == "<a"
ACLOSE == "</a"
BOPEN  == "<b"
BCLOSE == "</b"
HREF   == " href=\"x\""
SPC    == " "
NL     == "\n"

\* Tokens that hold the character "<" (always as their first character).
LtTokens == {SPAN, AOPEN, ACLOSE, BOPEN, BCLOSE}

\* Characters str.strip() removes.
Whitespace == {SPC, NL}

\* ------------------------------------------------------ regex engine
\* A pattern is a sequence of elements:
\*   lit  - a literal token
\*   star - CLASS* (greedy) or CLASS*? (lazy, g = FALSE)
\*   cap  - the capture group (CLASS+), greedy
Lit(t)     == [k |-> "lit",  t |-> t,  c |-> "",  g |-> TRUE]
Star(c, g) == [k |-> "star", t |-> "", c |-> c,   g |-> g]
Cap(c)     == [k |-> "cap",  t |-> "", c |-> c,   g |-> TRUE]

\* Character classes.  "dot" is "." : any character, the newline only
\* under re.DOTALL.
InClass(c, tok, dotall) ==
    CASE c = "notgt" -> tok # GT
      [] c = "notlt" -> tok \notin LtTokens
      [] c = "dot"   -> dotall \/ tok # NL

NoMatch == [ok |-> FALSE, end |-> 0, cap |-> <<>>]

\* Length of the longest run of tokens of class c starting at s[p].
RECURSIVE Run(_, _, _, _)
Run(c, s, p, dotall) ==
    IF p <= Len(s) /\ InClass(c, s[p], dotall)
    THEN 1 + Run(c, s, p + 1, dotall)
    ELSE 0

\* Backtracking match of pattern elements k.. at position p, in the
\* order the re module tries the alternatives: a greedy repetition from
\* the longest run down, a lazy one from the shortest up; the first
\* alternative whose continuation matches wins.
RECURSIVE MatchHere(_, _, _, _, _, _)
RECURSIVE TryRep(_, _, _, _, _, _, _, _, _)
MatchHere(re, k, s, p, cap, dotall) ==
    IF k > Len(re) THEN [ok |-> TRUE, end |-> p, cap |-> cap]
    ELSE LET e == re[k] IN
      IF e.k = "lit"
      THEN IF p <= Len(s) /\ s[p] = e.t
           THEN MatchHere(re, k + 1, s, p + 1, cap, dotall)
           ELSE NoMatch
      ELSE LET lo == IF e.k = "cap" THEN 1 ELSE 0
               hi == Run(e.c, s, p, dotall)
           IN  IF hi < lo THEN NoMatch
               ELSE TryRep(re, k, s, p, cap, dotall,
                           IF e.g THEN hi ELSE lo, lo, hi)

TryRep(re, k, s, p, cap, dotall, n, lo, hi) ==
    IF n < lo \/ n > hi THEN NoMatch
    ELSE LET e    == re[k]
             cap2 == IF e.k = "cap" THEN SubSeq(s, p, p + n - 1) ELSE cap
         IN  \* r is bound to the value of the continuation's match
             CHOOSE res \in
                 { IF r.ok THEN r
                   ELSE TryRep(re, k, s, p, cap, dotall,
                               IF e.g THEN n - 1 ELSE n + 1, lo, hi)
                   : r \in { MatchHere(re, k + 1, s, p + n, cap2, dotall) } }
                 : TRUE

\* re.findall with one group: scan left to right, keep the group of each
\* match, resume at the end of the match (the patterns match no empty
\* string).
RECURSIVE FindAllFrom(_, _, _, _)
FindAllFrom(re, s, pos, dotall) ==
    IF pos > Len(s) THEN <<>>
    ELSE CHOOSE res \in
             { IF r.ok THEN <<r.cap>> \o FindAllFrom(re, s, r.end, dotall)
               ELSE FindAllFrom(re, s, pos + 1, dotall)
               : r \in { MatchHere(re, 1, s, pos, <<>>, dotall) } }
             : TRUE

FindAll(re, s, dotall) == FindAllFrom(re, s, 1, dotall)

\* r'<span class="titleline"><a[^>]*>([^<]+)</a>'
pattern ==
    << Lit(SPAN), Lit(CLS), Lit(GT), Lit(AOPEN), Star("notgt", TRUE), Lit(GT),
       Cap("notlt"), Lit(ACLOSE), Lit(GT) >>

\* r'class="titleline"[^>]*>.*?<a[^>]*>([^<]+)</a>'
pattern2 ==
    << Lit(CLS), Star("notgt", TRUE), Lit(GT), Star("dot", FALSE),
       Lit(AOPEN), Star("notgt", TRUE), Lit(GT),
       Cap("notlt"), Lit(ACLOSE), Lit(GT) >>

\* Mutant: the matches collected without repetitions.
RECURSIVE Dedup(_)
Dedup(t) ==
    IF t = <<>> THEN <<>>
    ELSE LET rest == Dedup(SubSeq(t, 1, Len(t) - 1))
             last == t[Len(t)]
         IN  IF \E j \in 1..Len(rest) : rest[j] = last
             THEN rest ELSE Append(rest, last)

PrimaryTitlesDedup(h) == Dedup(FindAll(pattern, h, FALSE))

\* re.findall(pattern, html)
PrimaryTitles(h) == FindAll(pattern, h, FALSE)

\* re.findall(pattern2, html, re.DOTALL)
FallbackTitles(h) == FindAll(pattern2, h, TRUE)

\* str.strip(): drop leading and trailing whitespace.
RECURSIVE LStrip(_)
LStrip(t) ==
    IF t # <<>> /\ Head(t) \in Whitespace THEN LStrip(Tail(t)) ELSE t

RECURSIVE RStrip(_)
RStrip(t) ==
    IF t # <<>> /\ t[Len(t)] \in Whitespace
    THEN RStrip(SubSeq(t, 1, Len(t) - 1))
    ELSE t

Strip(t) == RStrip(LStrip(t))

\* ------------------------------------------------------------ inputs
\* Markup fragments a response body is assembled from.
Fragments ==
    { \* <span class="titleline"><a href="x">x</a>
      << SPAN, CLS, GT, AOPEN, HREF, GT, "x", ACLOSE, GT >>,
      \* <span class="titleline"><a> y </a>
      << SPAN, CLS, GT, AOPEN, GT, SPC, "y", SPC, ACLOSE, GT >>,
      \* <span class="titleline"><a>\n </a>          (whitespace-only text)
      << SPAN, CLS, GT, AOPEN, GT, NL, SPC, ACLOSE, GT >>,
      \* <span class="titleline">\n<b></b><a>x</a>   (markup before the anchor)
      << SPAN, CLS, GT, NL, BOPEN, GT, BCLOSE, GT, AOPEN, GT, "x", ACLOSE, GT >>,
      \* class="titleline" href="x"> <a> y</a>       (attributes after the class)
      << CLS, HREF, GT, SPC, AOPEN, GT, SPC, "y", ACLOSE, GT >>,
      \* class="titleline"><b><a> </a>               (whitespace-only, fallback)
      << CLS, GT, BOPEN, GT, AOPEN, GT, SPC, ACLOSE, GT >>,
      \* <span class="titleline"><a><b>x</b></a>     (anchor text in nested markup)
      << SPAN, CLS, GT, AOPEN, GT, BOPEN, GT, "x", BCLOSE, GT, ACLOSE, GT >>,
      \* <a>y</a>                                    (anchor without a marker)
      << AOPEN, GT, "y", ACLOSE, GT >> }

RECURSIVE Concat(_)
Concat(ss) == IF ss = <<>> THEN <<>> ELSE Head(ss) \o Concat(Tail(ss))

\* The decoded response bodies considered.
Pages == { Concat(f) : f \in UNION { [1..n -> Fragments] : n \in 0..MaxSegs } }

\* Ways the fetch step raises: URLError, HTTPError (non-2xx), socket
\* timeout, UnicodeDecodeError.
FetchFailures == {"network", "http", "timeout", "decode"}

\* ------------------------------------------------------------- state
VARIABLES
    pc,          \* position in the script
    html,        \* decoded response body (<<>> before the fetch)
    titles,      \* the variable `titles`
    i,           \* loop index of enumerate(titles, 1): next title to print
    exc,         \* the exception being propagated, "none" if none
    stdout,      \* lines written to standard output
    stderr,      \* lines written to standard error
    exitCode,    \* process exit code, -1 while running
    requests,    \* urlopen calls made
    primaryRuns, \* evaluations of re.findall(pattern, ...)
    fallbackRuns,\* evaluations of re.findall(pattern2, ...)
    primaryCount \* len(titles) right after the primary findall

vars == << pc, html, titles, i, exc, stdout, stderr, exitCode, requests,
           primaryRuns, fallbackRuns, primaryCount >>

Line(kind, n, text) == [kind |-> kind, n |-> n, text |-> text]

Init ==
    /\ pc = "fetch"
    /\ html = <<>>
    /\ titles = <<>>
    /\ i = 1
    /\ exc = "none"
    /\ stdout = <<>>
    /\ stderr = <<>>
    /\ exitCode = -1
    /\ requests = 0
    /\ primaryRuns = 0
    /\ fallbackRuns = 0
    /\ primaryCount = 0


\* ----------------------------------------------------------- actions
\* Lines 8-15, the request succeeds and the body decodes: html is bound.
FetchOk(h) ==
    /\ pc = "fetch"
    /\ requests' = requests + 1
    /\ html' = h
    /\ pc' = "primary"
    /\ UNCHANGED << titles, i, exc, stdout, stderr, exitCode,
                    primaryRuns, fallbackRuns, primaryCount >>

\* Mutant: a failed request is tried once more.
FetchFailRetry(kind) ==
    /\ pc = "fetch"
    /\ requests' = requests + 1
    /\ exc' = IF requests = 0 THEN exc ELSE kind
    /\ pc' = IF requests = 0 THEN "fetch" ELSE "except"
    /\ UNCHANGED << html, titles, i, stdout, stderr, exitCode,
                    primaryRuns, fallbackRuns, primaryCount >>

\* Lines 8-15, urlopen / read / decode raises: control goes to the handler.
FetchFail(kind) ==
    /\ pc = "fetch"
    /\ requests' = requests + 1
    /\ exc' = kind
    /\ pc' = "except"
    /\ UNCHANGED << html, titles, i, stdout, stderr, exitCode,
                    primaryRuns, fallbackRuns, primaryCount >>

\* Mutant: the fallback branch taken unconditionally.
NeedsFallbackAlways(t) == TRUE

\* Line 21: `if not titles`.
NeedsFallback(t) == t = <<>>

\* Lines 18-21: the primary findall and the test that follows it.
ParsePrimary ==
    /\ pc = "primary"
    /\ titles' = PrimaryTitles(html)
    /\ primaryRuns' = primaryRuns + 1
    /\ primaryCount' = Len(titles')
    /\ pc' = IF NeedsFallback(titles') THEN "notice" ELSE "present"
    /\ UNCHANGED << html, i, exc, stdout, stderr, exitCode, requests,
                    fallbackRuns >>

\* Mutant: the fallback tried without announcing it.
PrintNoticeSkipped ==
    /\ pc = "notice"
    /\ pc' = "fallback"
    /\ UNCHANGED << html, titles, i, exc, stdout, stderr, exitCode, requests,
                    primaryRuns, fallbackRuns, primaryCount >>

\* Line 22: the notice that the fallback pattern is about to be tried.
PrintNotice ==
    /\ pc = "notice"
    /\ stdout' = Append(stdout, Line("notice", 0, <<>>))
    /\ pc' = "fallback"
    /\ UNCHANGED << html, titles, i, exc, stderr, exitCode, requests,
                    primaryRuns, fallbackRuns, primaryCount >>

\* Lines 24-25: the fallback findall.
ParseFallback ==
    /\ pc = "fallback"
    /\ titles' = FallbackTitles(html)
    /\ fallbackRuns' = fallbackRuns + 1
    /\ pc' = "present"
    /\ UNCHANGED << html, i, exc, stdout, stderr, exitCode, requests,
                    primaryRuns, primaryCount >>

\* Line 28: f"... {len(titles)} ...".
CountLine(t) == Line("count", Len(t), <<>>)

\* Mutant: enumerate(titles) counting from 0.
TitleLineZeroBased(idx, title) == Line("title", idx - 1, Strip(title))

\* Mutant: title.lstrip() in place of title.strip().
TitleLineLStrip(idx, title) == Line("title", idx, LStrip(title))

\* Line 30: f"{i}. {title.strip()}".
TitleLine(idx, title) == Line("title", idx, Strip(title))

\* Lines 27-28: titles is non-empty, the count line is printed.
PrintCount ==
    /\ pc = "present"
    /\ titles # <<>>
    /\ stdout' = Append(stdout, CountLine(titles))
    /\ i' = 1
    /\ pc' = "loop"
    /\ UNCHANGED << html, titles, exc, stderr, exitCode, requests,
                    primaryRuns, fallbackRuns, primaryCount >>

\* Lines 29-30: one iteration of the loop over enumerate(titles, 1).
PrintTitle ==
    /\ pc = "loop"
    /\ i <= Len(titles)
    /\ stdout' = Append(stdout, TitleLine(i, titles[i]))
    /\ i' = i + 1
    /\ pc' = IF i + 1 > Len(titles) THEN "end" ELSE "loop"
    /\ UNCHANGED << html, titles, exc, stderr, exitCode, requests,
                    primaryRuns, fallbackRuns, primaryCount >>

\* Mutant: the empty branch prints nothing.
PrintNotFoundSilent ==
    /\ pc = "present"
    /\ titles = <<>>
    /\ pc' = "end"
    /\ UNCHANGED << html, titles, i, exc, stdout, stderr, exitCode, requests,
                    primaryRuns, fallbackRuns, primaryCount >>

\* Lines 31-32: titles is empty, the not-found message is printed.
PrintNotFound ==
    /\ pc = "present"
    /\ titles = <<>>
    /\ stdout' = Append(stdout, Line("notfound", 0, <<>>))
    /\ pc' = "end"
    /\ UNCHANGED << html, titles, i, exc, stderr, exitCode, requests,
                    primaryRuns, fallbackRuns, primaryCount >>

\* Lines 22, 28, 30, 32: a print call raises (UnicodeEncodeError for a
\* character the stream's encoding lacks, BrokenPipeError, OSError);
\* nothing of that line is written and control goes to the handler.
PrintRaise ==
    /\ pc \in {"notice", "present", "loop"}
    /\ exc' = "print"
    /\ pc' = "except"
    /\ UNCHANGED << html, titles, i, stdout, stderr, exitCode, requests,
                    primaryRuns, fallbackRuns, primaryCount >>

\* Mutant: the handler reports the error but omits sys.exit(1).
ExceptNoExit ==
    /\ pc = "except"
    /\ stderr' = Append(stderr, Line("error", 0, <<exc>>))
    /\ exitCode' = 0
    /\ pc' = "done"
    /\ UNCHANGED << html, titles, i, exc, stdout, requests,
                    primaryRuns, fallbackRuns, primaryCount >>

\* Lines 34-36: the handler prints the error to stderr and exits with 1.
Except ==
    /\ pc = "except"
    /\ stderr' = Append(stderr, Line("error", 0, <<exc>>))
    /\ exitCode' = 1
    /\ pc' = "done"
    /\ UNCHANGED << html, titles, i, exc, stdout, requests,
                    primaryRuns, fallbackRuns, primaryCount >>

\* End of the script: the interpreter exits with code 0.
ExitOk ==
    /\ pc = "end"
    /\ exitCode' = 0
    /\ pc' = "done"
    /\ UNCHANGED << html, titles, i, exc, stdout, stderr, requests,
                    primaryRuns, fallbackRuns, primaryCount >>

Next ==
    \/ pc = "fetch" /\ \E h \in Pages : FetchOk(h)
    \/ pc = "fetch" /\ \E kind \in FetchFailures : FetchFail(kind)
    \/ ParsePrimary
    \/ PrintNotice
    \/ ParseFallback
    \/ PrintCount
    \/ PrintTitle
    \/ PrintNotFound
    \/ PrintRaise
    \/ Except
    \/ ExitOk

Spec == Init /\ [][Next]_vars

\* The script is one sequential thread: whatever statement is next runs.
FairSpec == Spec /\ WF_vars(Next)


\* ------------------------------------------------- auxiliary notions
\* Positions of the lines of a given kind on standard output.
LinesOf(kind) == { k \in 1..Len(stdout) : stdout[k].kind = kind }

\* The fetch step has completed without raising.
Fetched == requests = 1 /\ exc \notin FetchFailures

\* A well-formed titleline anchor starts at h[p] and ends at h[r + 1]:
\* <span class="titleline"><a ATTRS>TEXT</a> with ATTRS free of ">" and
\* TEXT non-empty and free of "<"; q is the ">" closing the <a tag.
AnchorOpensAt(h, p) ==
    /\ p + 3 <= Len(h)
    /\ h[p] = SPAN /\ h[p + 1] = CLS /\ h[p + 2] = GT /\ h[p + 3] = AOPEN

AnchorAt(h, p, q, r) ==
    /\ AnchorOpensAt(h, p)
    /\ p + 3 < q /\ q + 1 < r /\ r + 1 <= Len(h)
    /\ h[q] = GT
    /\ h[r] = ACLOSE /\ h[r + 1] = GT
    /\ \A j \in (p + 4)..(q - 1) : h[j] # GT
    /\ \A j \in (q + 1)..(r - 1) : h[j] \notin LtTokens

\* <<p, q, r>> of every well-formed titleline anchor of h.
Anchors(h) ==
    UNION { UNION { { <<p, q, r>> :
                        r \in { r \in (q + 2)..(Len(h) - 1) :
                                  h[r] = ACLOSE /\ AnchorAt(h, p, q, r) } }
                    : q \in { q \in (p + 4)..Len(h) : h[q] = GT } }
            : p \in { p \in 1..Len(h) : AnchorOpensAt(h, p) } }

\* The anchors' texts in document order.
RECURSIVE TextsInOrder(_, _)
TextsInOrder(h, as) ==
    IF as = {} THEN <<>>
    ELSE LET a == CHOOSE x \in as : \A y \in as : x[1] <= y[1]
         IN  <<SubSeq(h, a[2] + 1, a[3] - 1)>> \o TextsInOrder(h, as \ {a})

\* ---------------------------------------------------------------- C1
\* C1: a page holding N >= 1 well-formed titleline anchors yields exactly
\* the N anchor texts, in document order, equal texts kept: once the
\* primary findall has run on such a page, titles is that sequence.
C1_PrimaryExtractsEveryAnchor ==
    primaryRuns = 1 =>
        LET as == Anchors(html) IN
        as # {} => /\ Len(titles) = Cardinality(as)
                   /\ titles = TextsInOrder(html, as)

\* Three anchors extracted, two of them carrying the same text and one
\* a different text in between or after.
C1_Witness ==
    /\ primaryRuns = 1
    /\ Cardinality(Anchors(html)) = 3
    /\ Len(titles) = 3
    /\ \E j, k \in 1..3 : j < k /\ titles[j] = titles[k]
    /\ \E j, k \in 1..3 : titles[j] # titles[k]

\* ---------------------------------------------------------------- C2
\* C2: the fallback findall runs only after a primary findall with zero
\* matches, and at most once; once extraction is over, titles is the
\* primary result if that is non-empty (fallback not run), and the
\* fallback result otherwise (fallback run once).
Extracted == pc \in {"present", "loop", "end"}

C2_FallbackIffPrimaryEmpty ==
    /\ fallbackRuns <= 1
    /\ primaryRuns = 1 => primaryCount = Len(PrimaryTitles(html))
    /\ fallbackRuns = 1 => (primaryRuns = 1 /\ primaryCount = 0)
    /\ (Extracted /\ primaryCount > 0)
          => (fallbackRuns = 0 /\ titles = PrimaryTitles(html))
    /\ (Extracted /\ primaryCount = 0)
          => (fallbackRuns = 1 /\ titles = FallbackTitles(html))

\* The primary found nothing and the fallback found two titles.
C2_Witness ==
    /\ Extracted
    /\ primaryCount = 0
    /\ fallbackRuns = 1
    /\ Len(titles) = 2

\* ---------------------------------------------------------------- C3
\* C3 as stated: a run without exception in which both patterns match
\* nothing ends with the not-found message alone on standard output and
\* exit code 0.
C3_OnlyNotFoundMessage ==
    (pc = "done" /\ exc = "none"
       /\ PrimaryTitles(html) = <<>> /\ FallbackTitles(html) = <<>>)
        => (stdout = << Line("notfound", 0, <<>>) >> /\ exitCode = 0)

\* C3 amended: in a run where the fetch succeeds and both patterns match
\* nothing, standard output is the fallback notice followed by the
\* not-found message and the exit code is 0; unless a print call raises,
\* and then the exit code is 1 and standard output holds at most the
\* notice.
C3_NoticeThenNotFound ==
    (pc = "done" /\ Fetched
       /\ PrimaryTitles(html) = <<>> /\ FallbackTitles(html) = <<>>)
        => IF exc = "none"
           THEN /\ stdout = << Line("notice", 0, <<>>),
                               Line("notfound", 0, <<>>) >>
                /\ exitCode = 0
           ELSE /\ stdout \in { <<>>, << Line("notice", 0, <<>>) >> }
                /\ exitCode = 1

\* A non-empty page without any titleline match, printed to the end.
C3_Witness ==
    /\ pc = "done"
    /\ exitCode = 0
    /\ html # <<>>
    /\ fallbackRuns = 1
    /\ titles = <<>>
    /\ Len(stdout) = 2

\* ---------------------------------------------------------------- C4
\* C4: whatever makes the fetch step raise, the run ends with one error
\* line on standard error, nothing on standard output, exit code 1, and
\* a single urlopen call; no state ever has more than one request.
C4_FetchFailureHandledOnce ==
    /\ requests <= 1
    /\ exc \in FetchFailures
          => /\ requests = 1
             /\ stdout = <<>>
             /\ primaryRuns = 0
             /\ pc \in {"except", "done"}
    /\ (exc \in FetchFailures /\ pc = "done")
          => /\ Len(stderr) = 1
             /\ stderr[1].kind = "error"
             /\ exitCode = 1

\* A decode error handled to the end.
C4_Witness ==
    /\ pc = "done"
    /\ exc = "decode"
    /\ Len(stderr) = 1

\* ---------------------------------------------------------------- C5
\* C5 as stated: a run that ends with exit code 1 has written no count
\* line and no title line to standard output.
C5_NoPartialOutput ==
    exitCode = 1 => (LinesOf("count") = {} /\ LinesOf("title") = {})

\* ---------------------------------------------------------------- C6
\* C6: standard output holds at most one count line; it reports
\* len(titles); every title line comes after it, the m-th line after it
\* carries index m and the m-th title (stripped); and when the print pass
\* has completed over a non-empty title sequence there are exactly
\* len(titles) title lines.
C6_CountAndNumberedTitles ==
    LET cs == LinesOf("count")
        ts == LinesOf("title")
    IN  /\ Cardinality(cs) <= 1
        /\ ts # {} => cs # {}
        /\ \A k \in cs :
              /\ titles # <<>>
              /\ stdout[k].n = Len(titles)
              /\ ts = (k + 1)..Len(stdout)
              /\ Cardinality(ts) <= Len(titles)
              /\ \A m \in ts : /\ stdout[m].n = m - k
                               /\ stdout[m].text = Strip(titles[m - k])
        /\ (pc \in {"end", "done"} /\ exc = "none" /\ titles # <<>>)
              => /\ cs # {}
                 /\ Cardinality(ts) = Len(titles)
                 /\ \A k \in cs : stdout[k].n = Cardinality(ts)

\* A completed listing of three titles that are not all equal.
C6_Witness ==
    /\ pc = "done"
    /\ exitCode = 0
    /\ Len(titles) = 3
    /\ titles[1] # titles[3]
    /\ Cardinality(LinesOf("title")) = 3

\* ---------------------------------------------------------------- C7
\* C7: every title line on standard output carries a text that neither
\* starts nor ends with whitespace, and that is the captured title with
\* nothing but whitespace removed at its two ends.
OnlyWhitespace(t) == \A j \in 1..Len(t) : t[j] \in Whitespace

C7_PrintedTitlesAreStripped ==
    \A k \in LinesOf("title") :
        LET text == stdout[k].text
            raw  == titles[stdout[k].n]
        IN  /\ text # <<>> => /\ text[1] \notin Whitespace
                              /\ text[Len(text)] \notin Whitespace
            /\ \E a \in 0..Len(raw), b \in 0..Len(raw) :
                  /\ a + Len(text) + b = Len(raw)
                  /\ OnlyWhitespace(SubSeq(raw, 1, a))
                  /\ SubSeq(raw, a + 1, a + Len(text)) = text
                  /\ OnlyWhitespace(SubSeq(raw, Len(raw) - b + 1, Len(raw)))

\* A whitespace-only title printed empty, and a padded one printed
\* without its padding.
C7_Witness ==
    /\ \E k \in LinesOf("title") :
          stdout[k].text = <<>> /\ titles[stdout[k].n] # <<>>
    /\ \E k \in LinesOf("title") :
          stdout[k].text # <<>> /\ titles[stdout[k].n] # stdout[k].text

\* ---------------------------------------------------------------- C8
\* Positions of the titleline markers of h.
Markers(h) == { p \in 1..Len(h) : h[p] = CLS }

\* The marker at p is followed by an anchor of its own: an <a tag before
\* the next marker.
OwnAnchor(h, p) ==
    \E a \in (p + 1)..Len(h) :
        /\ h[a] = AOPEN
        /\ \A m \in Markers(h) : ~(p < m /\ m < a)

\* C8 as stated: when the fallback has run on a page whose K markers are
\* each followed by an anchor of their own, it yields K titles.
C8_OneTitlePerMarker ==
    (fallbackRuns = 1 /\ \A p \in Markers(html) : OwnAnchor(html, p))
        => Len(titles) = Cardinality(Markers(html))

\* ---------------------------------------------------------------- C9
\* C9: a notice line is on standard output only if the primary findall
\* matched nothing, and then it is the first line and the only notice;
\* the fallback findall runs only after the notice is written; and once
\* a run whose primary findall matched nothing is past the notice without
\* an exception, the notice is there.
C9_NoticeBeforeFallback ==
    /\ LinesOf("notice") # {}
          => /\ primaryRuns = 1
             /\ primaryCount = 0
             /\ LinesOf("notice") = {1}
    /\ primaryCount > 0 => LinesOf("notice") = {}
    /\ fallbackRuns > 0 => LinesOf("notice") = {1}
    /\ (primaryRuns = 1 /\ primaryCount = 0 /\ pc # "notice" /\ exc = "none")
          => LinesOf("notice") = {1}

\* The notice, then the count line of the fallback's result.
C9_Witness ==
    /\ fallbackRuns = 1
    /\ Len(stdout) >= 2
    /\ stdout[1].kind = "notice"
    /\ stdout[2].kind = "count"

\* --------------------------------------------------------------- C10
\* The print pass has completed: the last line is the not-found message
\* or the title line of the last title.
PrintPassComplete ==
    /\ stdout # <<>>
    /\ LET last == stdout[Len(stdout)] IN
          \/ last.kind = "notfound" /\ titles = <<>>
          \/ last.kind = "title" /\ last.n = Len(titles)

C10_Safety ==
    /\ requests <= 1 /\ primaryRuns <= 1 /\ fallbackRuns <= 1
    /\ primaryRuns <= requests
    /\ Cardinality(LinesOf("count") \cup LinesOf("notfound")) <= 1
    /\ stdout # <<>> => primaryRuns = 1
    /\ pc # "done" => (exitCode = -1 /\ stderr = <<>>)
    /\ pc = "done"
          => /\ exitCode \in {0, 1}
             /\ exitCode = 0 <=> exc = "none"
             /\ exitCode = 0 => (Fetched /\ primaryRuns = 1 /\ PrintPassComplete)
             /\ exitCode = 1 <=> stderr # <<>>
             /\ Len(stderr) <= 1

\* C10: every run fetches, parses and prints at most once each, in that
\* order, and terminates; it ends with exit code 0 or 1, 0 exactly when
\* nothing raised (the fetch succeeded and the print pass completed), and
\* standard error is written exactly when the exit code is 1.
C10_SinglePathTerminates == [](C10_Safety) /\ <>(pc = "done")

\* A run that ended with exit code 1 after its print pass had begun.
C10_Witness ==
    /\ pc = "done"
    /\ exitCode = 1
    /\ exc = "print"
    /\ Len(stdout) = 2
    /\ Len(stderr) = 1

====
